---- MODULE Spec2Model ----
(***************************************************************************)
(* A model of the ndsbr_py batch pipeline: src/main.py, src/src/utils.py   *)
(* and src/src/ndsbr.py.  Data frames are modelled as tables (an ordered   *)
(* column list, a pandas index and one row function per record); the       *)
(* geopandas joins are modelled on a one-dimensional world (lat = 0).      *)
(***************************************************************************)
EXTENDS Integers, Sequences, FiniteSets, TLC

\* ------------------------------------------------------------------ bounds
MaxRows == 2
MaxStreets == 2
MaxPolys == 2
MaxCalls == 3

\* ------------------------------------------------------------- data frames
\* pandas' missing value (NaN / None) in a text column.
Null == "NULL"

Range(s) == {s[i] : i \in DOMAIN s}

\* An exception raised by a stage.
Raise(kind) == [error |-> kind]

IsError(v) == "error" \in DOMAIN v

\* A (Geo)DataFrame: ordered columns, index labels, one function per row.
Frame(cols, index, rows, crs) ==
    [cols |-> cols, index |-> index, rows |-> rows, crs |-> crs]

NRows(df) == Len(df.rows)

\* df[names]: KeyError when a name is no column; else the projection, in order.
Select(df, names) ==
    IF \E i \in DOMAIN names : names[i] \notin Range(df.cols)
    THEN Raise("KeyError")
    ELSE [df EXCEPT !.cols = names,
                    !.rows = [i \in DOMAIN df.rows |->
                                [c \in Range(names) |-> df.rows[i][c]]]]

NewName(map, c) == IF c \in DOMAIN map THEN map[c] ELSE c

\* df.rename(columns=map): names outside the map are kept as they are.
RenameCols(df, map) ==
    LET newcols == [i \in DOMAIN df.cols |-> NewName(map, df.cols[i])]
        old(c2) == CHOOSE c \in Range(df.cols) : NewName(map, c) = c2
    IN [df EXCEPT !.cols = newcols,
                  !.rows = [i \in DOMAIN df.rows |->
                              [c2 \in Range(newcols) |-> df.rows[i][old(c2)]]]]

\* df.drop(columns=names): KeyError when a name is no column.
DropCols(df, names) ==
    IF \E c \in names : c \notin Range(df.cols)
    THEN Raise("KeyError")
    ELSE LET kept == SelectSeq(df.cols, LAMBDA c : c \notin names)
         IN [df EXCEPT !.cols = kept,
                       !.rows = [i \in DOMAIN df.rows |->
                                   [c \in Range(kept) |-> df.rows[i][c]]]]

\* df[name] = values: replaces the column, or appends it as the last one.
SetCol(df, name, values) ==
    LET cols2 == IF name \in Range(df.cols) THEN df.cols
                 ELSE Append(df.cols, name)
    IN [df EXCEPT !.cols = cols2,
                  !.rows = [i \in DOMAIN df.rows |->
                              [c \in Range(cols2) |->
                                 IF c = name THEN values[i] ELSE df.rows[i][c]]]]

\* ------------------------------------------------------------- geometries
\* Coordinate reference systems: 4674 and 4326 are geographic (coordinates in
\* degrees), 31982 is projected (coordinates in metres).
Geographic == {4674, 4326}

\* Metres per unit of geographic coordinate along the model's line.
MetresPerDegree == 10

\* One coordinate re-expressed in another reference system.
ConvertX(x, from, to) ==
    IF from \in Geographic /\ to \notin Geographic THEN x * MetresPerDegree
    ELSE IF from \notin Geographic /\ to \in Geographic THEN x \div MetresPerDegree
    ELSE x

\* gdf.to_crs(crs): every coordinate of every geometry is converted.
ToCrs(df, crs) ==
    [df EXCEPT !.crs = crs,
               !.rows = [i \in DOMAIN df.rows |->
                  [c \in Range(df.cols) |->
                     IF c = "geometry"
                     THEN [k \in DOMAIN df.rows[i][c] |->
                             ConvertX(df.rows[i][c][k], df.crs, crs)]
                     ELSE df.rows[i][c]]]]

\* predicate="contains": the point lies in the interior of the polygon; a
\* point on the boundary is not contained.
Contains(poly, pt) == poly.lo < pt.x /\ pt.x < poly.hi

Abs(n) == IF n < 0 THEN 0 - n ELSE n

\* Distance between a point and a street, in the units of their coordinates.
Distance(pt, street) == Abs(pt.x - street.x)

\* ------------------------------------------------- source data (the inputs)
\* The sub-sequence of cands at the positions in S, in order.
Pick(cands, S) ==
    LET idx == SelectSeq([i \in DOMAIN cands |-> i], LAMBDA i : i \in S)
    IN [k \in DOMAIN idx |-> cands[idx[k]]]

Layers(cands, max) ==
    {Pick(cands, S) : S \in {T \in SUBSET DOMAIN cands : Cardinality(T) <= max}}

ZeroIndex(rows) == [i \in DOMAIN rows |-> i - 1]

\* Neighbourhood polygons of the source shapefile, in degrees.
PolyCands ==
    << [CODIGO |-> "1", NOME |-> "CENTRO", geometry |-> [lo |-> -1, hi |-> 1]],
       [CODIGO |-> "2", NOME |-> "BATEL", geometry |-> [lo |-> -2, hi |-> 5]],
       [CODIGO |-> "3", NOME |-> "REBOUCAS", geometry |-> [lo |-> 4, hi |-> 6]] >>

BairrosTables ==
    {Frame(<<"CODIGO", "NOME", "geometry">>, ZeroIndex(rows), rows, 4674) :
        rows \in Layers(PolyCands, MaxPolys)}
    \cup {ToCrs(Frame(<<"CODIGO", "NOME", "geometry">>, ZeroIndex(rows), rows, 4674),
                31982) : rows \in Layers(PolyCands, MaxPolys)}
    \cup {Frame(<<"CODIGO", "geometry">>, <<0>>,
                << [CODIGO |-> "1", geometry |-> [lo |-> -1, hi |-> 1]] >>, 4674)}

\* Municipal street centrelines of the source shapefile, in metres.
ViasCands ==
    << [CODVIA |-> "1", NMVIA |-> "RUA A", SVIARIO |-> "NORMAL",
        HIERARQUIA |-> "3", geometry |-> [x |-> 19]],
       [CODVIA |-> "2", NMVIA |-> "RUA B", SVIARIO |-> "COLETORA",
        HIERARQUIA |-> "9", geometry |-> [x |-> -19]],
       [CODVIA |-> "3", NMVIA |-> "RUA C", SVIARIO |-> "SETORIAL",
        HIERARQUIA |-> "1", geometry |-> [x |-> 45]] >>

ViasCols == <<"CODVIA", "NMVIA", "SVIARIO", "HIERARQUIA", "geometry">>

ViasTables ==
    {Frame(ViasCols, ZeroIndex(rows), rows, 31982) :
        rows \in Layers(ViasCands, MaxStreets)}
    \cup {Frame(<<"CODVIA", "NMVIA", "geometry">>, <<0>>,
                << [CODVIA |-> "1", NMVIA |-> "RUA A", geometry |-> [x |-> 19]] >>,
                31982)}

\* Edges of the extracted OSM road network, in degrees; an edge may carry no
\* maxspeed tag.
OsmCands ==
    << [osmid |-> "1", maxspeed |-> "50", geometry |-> [x |-> 0]],
       [osmid |-> "2", maxspeed |-> Null, geometry |-> [x |-> 3]],
       [osmid |-> "3", maxspeed |-> "30", geometry |-> [x |-> 5]] >>

OsmCols == <<"osmid", "maxspeed", "geometry">>

OsmGraphs ==
    {Frame(OsmCols, ZeroIndex(rows), rows, 4326) :
        rows \in Layers(OsmCands, MaxStreets)}

\* ------------------------------------------------------------ utils.py
\* A file or URL: whether it can be read, and the table it holds.
Source(readable, data) == [readable |-> readable, data |-> data]

EmptyFrame == Frame(<<>>, <<>>, <<>>, 0)

Unreadable == Source(FALSE, EmptyFrame)

\* gpd.read_file / pd.read_csv: raises when the source cannot be read.
ReadFile(file) == IF file.readable THEN file.data ELSE Raise("IOError")

LoadBairros(file) ==
    LET bairros == ReadFile(file)
    IN IF IsError(bairros) THEN bairros
       ELSE LET sel == Select(bairros, <<"NOME", "geometry">>)
            IN IF IsError(sel) THEN sel
               ELSE RenameCols(sel, [c \in {"NOME"} |-> "bairro"])

LoadViasCwb(file) ==
    LET vias == ReadFile(file)
    IN IF IsError(vias) THEN vias
       ELSE LET sel == Select(vias, <<"NMVIA", "SVIARIO", "HIERARQUIA", "geometry">>)
            IN IF IsError(sel) THEN sel
               ELSE RenameCols(sel,
                       [c \in {"NMVIA", "SVIARIO", "HIERARQUIA"} |->
                          CASE c = "NMVIA" -> "nome_via"
                            [] c = "SVIARIO" -> "tipo_via_cwb"
                            [] c = "HIERARQUIA" -> "tipo_via_ctb"])

\* The artifact data/osmaxis/edges.shp: absent, or left by an earlier save
\* (complete, or cut short by a failed save).
NoArtifact == [exists |-> FALSE, complete |-> FALSE, edges |-> EmptyFrame]

Artifact(edges, complete) == [exists |-> TRUE, complete |-> complete, edges |-> edges]

\* Mutant of Exists: the existence check never finds the artifact.
ExistsNever(d) == FALSE

\* os.path.exists(file)
Exists(d) == d.exists

\* What can go wrong in one import_osm call.
OsmFaults == {"none", "network", "write", "write_partial", "read"}

\* import_osm(place) on the disk state `disk`, when the network would answer
\* the extraction with `graph`.  Gives the new disk state, whether the network
\* extraction was attempted, whether the artifact was written, and the result.
ImportOsm(disk, place, graph, fault) ==
    LET exists == Exists(disk)
        extracted == ~exists
        netok == extracted /\ fault # "network"
        wrote == netok /\ fault \notin {"write", "write_partial"}
        disk2 == IF wrote THEN Artifact(graph, TRUE)
                 ELSE IF netok /\ fault = "write_partial" THEN Artifact(graph, FALSE)
                 ELSE disk
        reached == exists \/ wrote
        axis == IF disk2.complete /\ fault # "read"
                THEN Select(disk2.edges, <<"maxspeed", "geometry">>)
                ELSE Raise("IOError")
        result == IF ~reached
                  THEN Raise(IF netok THEN "IOError" ELSE "NetworkError")
                  ELSE IF IsError(axis) THEN axis
                  ELSE RenameCols(axis, [c \in {"maxspeed"} |-> "spd_limit"])
    IN [disk |-> disk2, extracted |-> extracted, wrote |-> wrote,
        place |-> place, result |-> result]

\* ------------------------------------------------------------ ndsbr.py
COLS ==
    <<"DRIVER", "LONG", "LAT", "DAY", "TRIP", "ID", "PR", "TIME_ACUM",
      "SPD_KMH", "VALID_TIME", "TIMESTAMP", "ACEL_MS2">>

CleanRenames ==
    [c \in {"DRIVER", "LONG", "LAT", "DAY", "TRIP", "ID", "PR", "TIME_ACUM",
            "SPD_KMH", "VALID_TIME", "ACEL_MS2"} |->
       CASE c = "DRIVER" -> "driver"
         [] c = "LONG" -> "long"
         [] c = "LAT" -> "lat"
         [] c = "DAY" -> "date"
         [] c = "TRIP" -> "trip"
         [] c = "ID" -> "id"
         [] c = "PR" -> "time"
         [] c = "TIME_ACUM" -> "time_acum"
         [] c = "SPD_KMH" -> "spd_kmh"
         [] c = "VALID_TIME" -> "valid_time"
         [] c = "ACEL_MS2" -> "acel_ms2"]

\* A numeric cell: the text of a number n written with decimal separator sep,
\* or a parsed floating-point number.
NumText(n, sep) == [kind |-> "str", n |-> n, sep |-> sep]

Float(n) == [kind |-> "float", n |-> n, sep |-> "."]

\* df[col].str.replace(",", ".").astype(float) on one cell.  The .str accessor
\* raises on a column that is not text; astype raises on unparsable text.
ToFloat(v) ==
    IF v.kind # "str" THEN Raise("AttributeError")
    ELSE LET replaced == IF v.sep = "," THEN "." ELSE v.sep
         IN IF replaced = "." THEN Float(v.n) ELSE Raise("ValueError")

FloatCols == <<"long", "lat", "spd_kmh", "acel_ms2">>

\* for col in [...]: df[col] = to_float(df, col); the first failure is raised.
ToFloatCols(df, names) ==
    LET bad == {<<k, i>> \in (DOMAIN names) \X (DOMAIN df.rows) :
                  IsError(ToFloat(df.rows[i][names[k]]))}
    IN IF bad # {}
       THEN LET first == CHOOSE p \in bad :
                           \A q \in bad : p[1] < q[1] \/ (p[1] = q[1] /\ p[2] <= q[2])
            IN ToFloat(df.rows[first[2]][names[first[1]]])
       ELSE [df EXCEPT !.rows = [i \in DOMAIN df.rows |->
               [c \in Range(df.cols) |->
                  IF c \in Range(names) THEN ToFloat(df.rows[i][c])
                  ELSE df.rows[i][c]]]]

CleanCols(df) ==
    LET sel == Select(df, COLS)
    IN IF IsError(sel) THEN sel
       ELSE ToFloatCols(RenameCols(sel, CleanRenames), FloatCols)

\* A date-time value.
Timestamp(date, time) == [kind |-> "datetime", date |-> date, time |-> time]

\* strptime with '%d/%m/%Y' and '%H:%M:%S' on the texts the model uses.
ParseDate(text) ==
    IF text = "31/12/2020" THEN <<2020, 12, 31>> ELSE <<>>

ParseTime(text) ==
    IF text = "23:59:59" THEN <<23, 59, 59>> ELSE <<>>

\* pd.to_datetime(date + " " + time, format='%d/%m/%Y %H:%M:%S')
ToDatetime(date, time) ==
    IF ParseDate(date) = <<>> \/ ParseTime(time) = <<>> THEN Raise("ValueError")
    ELSE Timestamp(ParseDate(date), ParseTime(time))

CreateDatetime(date_col, time_col, df) ==
    IF {date_col, time_col} \subseteq Range(df.cols)
    THEN IF \E i \in DOMAIN df.rows :
               IsError(ToDatetime(df.rows[i][date_col], df.rows[i][time_col]))
         THEN Raise("ValueError")
         ELSE LET dt == [i \in DOMAIN df.rows |->
                           ToDatetime(df.rows[i][date_col], df.rows[i][time_col])]
                  d == [i \in DOMAIN df.rows |-> Timestamp(dt[i].date, <<0, 0, 0>>)]
              IN SetCol(SetCol(df, "datetime", dt), date_col, d)
    ELSE Raise("KeyError")

\* gpd.points_from_xy(long, lat) in a frame tagged EPSG 4674.
CreateSpatialData(df) ==
    IF {"long", "lat"} \subseteq Range(df.cols)
    THEN [SetCol(df, "geometry",
                 [i \in DOMAIN df.rows |-> [x |-> df.rows[i]["long"].n]])
            EXCEPT !.crs = 4674]
    ELSE Raise("KeyError")

RECURSIVE Flatten(_)
Flatten(ss) == IF Len(ss) = 0 THEN <<>> ELSE Head(ss) \o Flatten(Tail(ss))

NonGeometry(cols) == SelectSeq(cols, LAMBDA c : c # "geometry")

\* One joined record: the cells of row a where it has the column, else of b.
Merged(cols, a, b) ==
    [c \in Range(cols) |-> IF c \in DOMAIN a THEN a[c] ELSE b[c]]

NullRow(cols) == [c \in Range(cols) |-> Null]

\* gpd.sjoin(left, right, how="right", predicate="contains"): one row per
\* (left, right) pair whose left geometry contains the right one, and one row
\* with nulls on the left side for each right row that no left geometry
\* contains.  The result keeps the right frame's index and geometry.
SjoinContainsRight(left, right) ==
    LET lcols == NonGeometry(left.cols)
        cols == <<"index_left">> \o lcols \o right.cols
        hits(j) == SelectSeq([i \in DOMAIN left.rows |-> i],
                     LAMBDA i : Contains(left.rows[i]["geometry"],
                                         right.rows[j]["geometry"]))
        side(i) == [c \in Range(lcols) \cup {"index_left"} |->
                      IF c = "index_left" THEN left.index[i] ELSE left.rows[i][c]]
        out(j) == IF Len(hits(j)) = 0
                  THEN << [idx |-> right.index[j],
                           row |-> Merged(cols, right.rows[j], NullRow(cols))] >>
                  ELSE [k \in DOMAIN hits(j) |->
                          [idx |-> right.index[j],
                           row |-> Merged(cols, right.rows[j], side(hits(j)[k]))]]
        all == Flatten([j \in DOMAIN right.rows |-> out(j)])
    IN Frame(cols, [k \in DOMAIN all |-> all[k].idx],
             [k \in DOMAIN all |-> all[k].row], right.crs)

\* Mutant of UnmatchedLeft: a left row with no match is dropped (an inner join).
UnmatchedDropped(cols, idx, row) == <<>>

\* how="left": a left row with no match is kept once, the right side null.
UnmatchedLeft(cols, idx, row) ==
    << [idx |-> idx, row |-> Merged(cols, row, NullRow(cols))] >>

\* The smallest element of a non-empty set of numbers.
Min(S) == CHOOSE m \in S : \A n \in S : m <= n

\* gpd.sjoin_nearest(left, right, how="left", max_distance=d): each left row
\* is paired with every right row at the smallest distance from it, provided
\* that distance is within d; a left row with no right row within d is kept
\* once, with nulls on the right side.  The result keeps the left frame's
\* index and geometry.
SjoinNearestLeft(left, right, max_distance) ==
    LET rcols == NonGeometry(right.cols)
        cols == left.cols \o <<"index_right">> \o rcols
        dist(i, j) == Distance(left.rows[i]["geometry"], right.rows[j]["geometry"])
        near(i) == {j \in DOMAIN right.rows : dist(i, j) <= max_distance}
        hits(i) == SelectSeq([j \in DOMAIN right.rows |-> j],
                     LAMBDA j : j \in near(i)
                                /\ dist(i, j) = Min({dist(i, n) : n \in near(i)}))
        side(j) == [c \in Range(rcols) \cup {"index_right"} |->
                      IF c = "index_right" THEN right.index[j] ELSE right.rows[j][c]]
        out(i) == IF near(i) = {}
                  THEN UnmatchedLeft(cols, left.index[i], left.rows[i])
                  ELSE [k \in DOMAIN hits(i) |->
                          [idx |-> left.index[i],
                           row |-> Merged(cols, left.rows[i], side(hits(i)[k]))]]
        all == Flatten([i \in DOMAIN left.rows |-> out(i)])
    IN Frame(cols, [k \in DOMAIN all |-> all[k].idx],
             [k \in DOMAIN all |-> all[k].row], left.crs)

JoinBairrosData(ndsbr_data, bairros_data) ==
    LET bairros == IF ndsbr_data.crs # bairros_data.crs
                   THEN ToCrs(bairros_data, ndsbr_data.crs)
                   ELSE bairros_data
    IN DropCols(SjoinContainsRight(bairros, ndsbr_data), {"index_left"})

\* Mutant of MaxDistance: a search radius that bounds nothing.
NoMaxDistance == 20 * 50

\* max_distance of the nearest-street join.
MaxDistance == 20

JoinViasData(ndsbr_data, vias_data) ==
    LET nds == IF ndsbr_data.crs # 31982 THEN ToCrs(ndsbr_data, 31982)
               ELSE ndsbr_data
        vias == IF vias_data.crs # 31982 THEN ToCrs(vias_data, 31982)
                ELSE vias_data
        gdf == SjoinNearestLeft(nds, vias, MaxDistance)
    IN DropCols(ToCrs(gdf, 4674), {"index_right"})

SpeedByType ==
    [k \in {"1", "2", "3", "4"} |->
       CASE k = "1" -> "70" [] k = "2" -> "60" [] k = "3" -> "40" [] k = "4" -> "30"]

\* Series.replace(SpeedByType) on one cell: a value that is no key is kept.
Replace(v) == IF v \in DOMAIN SpeedByType THEN SpeedByType[v] ELSE v

\* Mutant of Fillna: the other series' value replaces every cell.
FillnaOverwrite(v, other) == other

\* Series.fillna(other) on one cell: a null takes the other series' value.
Fillna(v, other) == IF v = Null THEN other ELSE v

FillMissingSpeed(ndsbr_data) ==
    IF {"spd_limit", "tipo_via_ctb"} \subseteq Range(ndsbr_data.cols)
    THEN SetCol(ndsbr_data, "spd_limit",
                [i \in DOMAIN ndsbr_data.rows |->
                   Fillna(ndsbr_data.rows[i]["spd_limit"],
                          Replace(ndsbr_data.rows[i]["tipo_via_ctb"]))])
    ELSE Raise("KeyError")

FixCols ==
    <<"id", "driver", "trip", "long", "lat", "date", "time", "time_acum",
      "spd_kmh", "acel_ms2", "valid_time", "nome_bairro", "nome_via",
      "tipo_via_cwb", "tipo_via_ctb", "spd_limit", "geometry">>

FixColOrder(ndsbr_data) == Select(ndsbr_data, FixCols)

\* ------------------------------------------------------------ main.py
\* The raw telemetry file: one row per GPS fix at the given longitudes, the
\* decimal numbers written with separator sep.
RawRow(i, long, sep, day) ==
    [c \in Range(COLS) \cup {"EXTRA"} |->
       CASE c = "LONG" -> NumText(long, sep)
         [] c \in {"LAT", "SPD_KMH", "ACEL_MS2"} -> NumText(0, sep)
         [] c = "DAY" -> day
         [] c = "PR" -> "23:59:59"
         [] c = "ID" -> i
         [] OTHER -> "x"]

RawTable(longs, sep, day) ==
    Frame(COLS \o <<"EXTRA">>, ZeroIndex(longs),
          [i \in DOMAIN longs |-> RawRow(i, longs[i], sep, day)], 0)

\* Longitudes of the GPS fixes, in degrees.
PointLongs == {0, 4}

LongSeqs == UNION {[1..n -> PointLongs] : n \in 1..MaxRows}

\* pd.read_csv infers a column's type: a column whose every cell is a number
\* written with a decimal point is read as floating point, any other as text.
ReadCsv(file) ==
    LET raw == ReadFile(file)
        numeric(c) == \A i \in DOMAIN raw.rows :
                         /\ "kind" \in DOMAIN raw.rows[i][c]
                         /\ raw.rows[i][c].sep = "."
    IN IF IsError(raw) THEN raw
       ELSE [raw EXCEPT !.rows = [i \in DOMAIN raw.rows |->
               [c \in Range(raw.cols) |->
                  IF c \in {"LONG", "LAT", "SPD_KMH", "ACEL_MS2"} /\ numeric(c)
                  THEN Float(raw.rows[i][c].n) ELSE raw.rows[i][c]]]]

CsvFiles ==
    {Source(TRUE, RawTable(longs, ",", "31/12/2020")) : longs \in LongSeqs}
    \cup {Source(TRUE, RawTable(<<0>>, sep, "31/12/2020")) : sep \in {".", "?"}}
    \cup {Source(TRUE, RawTable(<<0>>, ",", "2020-12-31"))}
    \cup {Source(TRUE, Select(RawTable(<<0>>, ",", "31/12/2020"),
                              SubSeq(COLS, 1, Len(COLS) - 1)))}
    \cup {Unreadable}

\* What can go wrong in one write of an output file: nothing, a failure before
\* anything is written, or a failure that leaves a partial file.
WriteFaults == {"none", "fail", "fail_partial"}

\* df.to_csv(path) / df.to_parquet(path): the file's state afterwards.
WriteFile(before, fault) ==
    CASE fault = "none" -> "complete"
      [] fault = "fail" -> before
      [] fault = "fail_partial" -> "partial"

OutputPaths == {"data/ndsbr.csv", "data/ndsbr.parquet"}

Stages ==
    <<"load_bairros", "load_vias_cwb", "import_osm", "read_csv", "clean_cols",
      "create_datetime", "create_spatial_data", "join_bairros_data",
      "join_vias_data", "join_vias_data_osm", "fill_missing_speed",
      "fix_col_order", "to_csv", "to_parquet">>

StageNo(s) == CHOOSE k \in DOMAIN Stages : Stages[k] = s

\* A local variable of main that is not yet assigned.
Unbound == [unbound |-> TRUE]

NoError == [ok |-> TRUE]

VARIABLES
    pc,                \* the statement of main to run next, or "done"
    raised,            \* the exception that ended the run, or NoError
    executed,          \* the stages called so far, in order
    bairros, vias, osm_vias, nds_data, nds_data_cleaned, nds_spatial,
    nds_sample,        \* the successive values assigned to nds_sample
    disk,              \* the artifact data/osmaxis/edges.shp
    files,             \* the state of the two output files
    osm_calls          \* one record per import_osm call made

vars == <<pc, raised, executed, bairros, vias, osm_vias, nds_data,
          nds_data_cleaned, nds_spatial, nds_sample, disk, files, osm_calls>>

Last(seq) == seq[Len(seq)]

Place == "Curitiba, Brazil"

\* The data and faults the environment can present to the stage at pc.
Inputs ==
    CASE pc = "load_bairros" ->
           {Source(TRUE, t) : t \in BairrosTables} \cup {Unreadable}
      [] pc = "load_vias_cwb" ->
           {Source(TRUE, t) : t \in ViasTables} \cup {Unreadable}
      [] pc = "import_osm" ->
           {[graph |-> g, fault |-> f] : g \in OsmGraphs, f \in OsmFaults}
      [] pc = "read_csv" -> CsvFiles
      [] pc \in {"to_csv", "to_parquet"} -> WriteFaults
      [] OTHER -> {"none"}

\* The value of the call at pc (a frame, a write's outcome or an exception).
Call(inp) ==
    CASE pc = "load_bairros" -> LoadBairros(inp)
      [] pc = "load_vias_cwb" -> LoadViasCwb(inp)
      [] pc = "import_osm" -> ImportOsm(disk, Place, inp.graph, inp.fault).result
      [] pc = "read_csv" -> ReadCsv(inp)
      [] pc = "clean_cols" -> CleanCols(nds_data)
      [] pc = "create_datetime" -> CreateDatetime("date", "time", nds_data_cleaned)
      [] pc = "create_spatial_data" -> CreateSpatialData(nds_data_cleaned)
      [] pc = "join_bairros_data" -> JoinBairrosData(nds_spatial, bairros)
      [] pc = "join_vias_data" -> JoinViasData(Last(nds_sample), vias)
      [] pc = "join_vias_data_osm" -> JoinViasData(Last(nds_sample), osm_vias)
      [] pc = "fill_missing_speed" -> FillMissingSpeed(Last(nds_sample))
      [] pc = "fix_col_order" -> FixColOrder(Last(nds_sample))
      [] pc \in {"to_csv", "to_parquet"} ->
           IF inp = "none" THEN NoError ELSE Raise("IOError")

\* What the call at pc leaves on disk, whether it returns or raises.
SideEffects(inp) ==
    /\ disk' = IF pc = "import_osm"
               THEN ImportOsm(disk, Place, inp.graph, inp.fault).disk ELSE disk
    /\ osm_calls' = IF pc = "import_osm"
                    THEN Append(osm_calls,
                                [ImportOsm(disk, Place, inp.graph, inp.fault)
                                   EXCEPT !.disk = disk])
                    ELSE osm_calls
    /\ files' = CASE pc = "to_csv" ->
                       [files EXCEPT !["data/ndsbr.csv"] = WriteFile(@, inp)]
                  [] pc = "to_parquet" ->
                       [files EXCEPT !["data/ndsbr.parquet"] = WriteFile(@, inp)]
                  [] OTHER -> files

NextPc == IF StageNo(pc) = Len(Stages) THEN "done" ELSE Stages[StageNo(pc) + 1]

Assign(name, v) ==
    /\ bairros' = IF name = "bairros" THEN v ELSE bairros
    /\ vias' = IF name = "vias" THEN v ELSE vias
    /\ osm_vias' = IF name = "osm_vias" THEN v ELSE osm_vias
    /\ nds_data' = IF name = "nds_data" THEN v ELSE nds_data
    /\ nds_data_cleaned' = IF name = "nds_data_cleaned" THEN v ELSE nds_data_cleaned
    /\ nds_spatial' = IF name = "nds_spatial" THEN v ELSE nds_spatial
    /\ nds_sample' = IF name = "nds_sample" THEN Append(nds_sample, v) ELSE nds_sample

\* The local variable of main that the call at pc is assigned to.
Target ==
    CASE pc = "load_bairros" -> "bairros"
      [] pc = "load_vias_cwb" -> "vias"
      [] pc = "import_osm" -> "osm_vias"
      [] pc = "read_csv" -> "nds_data"
      [] pc \in {"clean_cols", "create_datetime"} -> "nds_data_cleaned"
      [] pc = "create_spatial_data" -> "nds_spatial"
      [] pc \in {"to_csv", "to_parquet"} -> "none"
      [] OTHER -> "nds_sample"

\* Mutant of Running: an exception does not end the run.
RunningAfterError == pc # "done"

\* main runs until its last statement returns or an exception propagates.
Running == pc # "done" /\ raised = NoError

\* main is a straight line of calls with no try/except: from each statement
\* there are two steps, "the call returns" and "the call raises".

\* The statement at pc returns: its value is assigned and main moves on.
StageReturns ==
    /\ Running
    /\ \E inp \in Inputs :
         /\ ~IsError(Call(inp))
         /\ Assign(Target, Call(inp))
         /\ SideEffects(inp)
    /\ executed' = Append(executed, pc)
    /\ pc' = NextPc
    /\ raised' = raised

\* The statement at pc raises: nothing catches it, and the run ends.
StageRaises ==
    /\ Running
    /\ \E inp \in Inputs :
         /\ IsError(Call(inp))
         /\ raised' = Call(inp)
         /\ SideEffects(inp)
    /\ executed' = Append(executed, pc)
    /\ UNCHANGED <<pc, bairros, vias, osm_vias, nds_data, nds_data_cleaned,
                   nds_spatial, nds_sample>>

Artifacts ==
    {NoArtifact} \cup {Artifact(g, TRUE) : g \in OsmGraphs}
    \cup {Artifact(Frame(OsmCols, <<>>, <<>>, 4326), FALSE)}

Init ==
    /\ pc = "load_bairros"
    /\ raised = NoError
    /\ executed = <<>>
    /\ bairros = Unbound /\ vias = Unbound /\ osm_vias = Unbound
    /\ nds_data = Unbound /\ nds_data_cleaned = Unbound /\ nds_spatial = Unbound
    /\ nds_sample = <<>>
    /\ disk \in Artifacts
    /\ files = [p \in OutputPaths |-> "absent"]
    /\ osm_calls = <<>>

Next == StageReturns \/ StageRaises

Spec == Init /\ [][Next]_vars

\* ------------------------------------------- fill_missing_speed on its own
\* Tables of street attributes as fill_missing_speed may receive them.
FillCells ==
    {[tipo_via_ctb |-> t, spd_limit |-> v] :
        t \in {Null, "1", "2", "3", "4", "9"}, v \in {Null, "50"}}

FillCols == <<"id", "tipo_via_ctb", "spd_limit">>

FillTables ==
    {Frame(FillCols, ZeroIndex(cells),
           [i \in DOMAIN cells |->
              [c \in Range(FillCols) |-> IF c = "id" THEN i ELSE cells[i][c]]], 4674) :
        cells \in UNION {[1..n -> FillCells] : n \in 1..MaxRows}}

InitFill ==
    /\ pc = "fill_missing_speed"
    /\ raised = NoError
    /\ executed = <<>>
    /\ bairros = Unbound /\ vias = Unbound /\ osm_vias = Unbound
    /\ nds_data = Unbound /\ nds_data_cleaned = Unbound /\ nds_spatial = Unbound
    /\ nds_sample \in {<<t>> : t \in FillTables}
    /\ disk = NoArtifact
    /\ files = [p \in OutputPaths |-> "absent"]
    /\ osm_calls = <<>>

\* One call of fill_missing_speed on the table.
FillStep ==
    /\ pc = "fill_missing_speed"
    /\ nds_sample' = Append(nds_sample, FillMissingSpeed(Last(nds_sample)))
    /\ executed' = Append(executed, pc)
    /\ pc' = "done"
    /\ UNCHANGED <<raised, bairros, vias, osm_vias, nds_data, nds_data_cleaned,
                   nds_spatial, disk, files, osm_calls>>

SpecFill == InitFill /\ [][FillStep]_vars

\* ------------------------------------------- import_osm called repeatedly
Places == {"Curitiba, Brazil", "Pinhais, Brazil"}

\* The road network the extraction returns for a place.
Network(place) ==
    IF place = "Curitiba, Brazil"
    THEN Frame(OsmCols, <<0>>, <<OsmCands[1]>>, 4326)
    ELSE Frame(OsmCols, <<0>>, <<OsmCands[3]>>, 4326)

InitOsm ==
    /\ pc = "import_osm"
    /\ raised = NoError
    /\ executed = <<>>
    /\ bairros = Unbound /\ vias = Unbound /\ osm_vias = Unbound
    /\ nds_data = Unbound /\ nds_data_cleaned = Unbound /\ nds_spatial = Unbound
    /\ nds_sample = <<>>
    /\ disk \in {NoArtifact, Artifact(Network("Pinhais, Brazil"), TRUE)}
    /\ files = [p \in OutputPaths |-> "absent"]
    /\ osm_calls = <<>>

\* One call import_osm(place), returning or raising.
OsmCall ==
    /\ Len(osm_calls) < MaxCalls
    /\ \E place \in Places, fault \in OsmFaults :
         LET r == ImportOsm(disk, place, Network(place), fault)
         IN /\ disk' = r.disk
            /\ osm_calls' = Append(osm_calls, [r EXCEPT !.disk = disk])
    /\ UNCHANGED <<pc, raised, executed, bairros, vias, osm_vias, nds_data,
                   nds_data_cleaned, nds_spatial, nds_sample, files>>

SpecOsm == InitOsm /\ [][OsmCall]_vars

\* ================================================================ claims
\* The call of stage s has returned.
Returned(s) ==
    \E k \in DOMAIN executed :
       executed[k] = s /\ (k < Len(executed) \/ raised = NoError)

AfterBairros == nds_sample[1]
AfterVias == nds_sample[2]
AfterOsm == nds_sample[3]

\* C1 (as claimed): whenever fix_col_order is called, it returns, and main
\* reaches the writer with exactly the canonical 17 columns, in order.
C1_ColumnOrder ==
    "fix_col_order" \in Range(executed) =>
        /\ raised = NoError
        /\ pc = "to_csv"
        /\ Last(nds_sample).cols = FixCols

\* C2 (as claimed): a row whose spd_limit is null and whose tipo_via_ctb is no
\* key of the lookup still has a null spd_limit after fill_missing_speed.
C2_UnmappedStaysNull ==
    pc = "done" =>
        \A i \in DOMAIN nds_sample[1].rows :
           (/\ nds_sample[1].rows[i]["spd_limit"] = Null
            /\ nds_sample[1].rows[i]["tipo_via_ctb"] \notin {"1", "2", "3", "4"})
           => nds_sample[2].rows[i]["spd_limit"] = Null

Expected(code) ==
    CASE code = "1" -> "70" [] code = "2" -> "60"
      [] code = "3" -> "40" [] code = "4" -> "30"

\* C3: fill_missing_speed keeps every non-null spd_limit, gives a null one the
\* text "70", "60", "40" or "30" when tipo_via_ctb is "1", "2", "3" or "4", and
\* changes no other column, no column order and no row count.
C3_FillOnlyMissing ==
    pc = "done" =>
        LET a == nds_sample[1]
            b == nds_sample[2]
        IN /\ ~IsError(b)
           /\ b.cols = a.cols
           /\ b.index = a.index
           /\ Len(b.rows) = Len(a.rows)
           /\ \A i \in DOMAIN a.rows :
                /\ \A c \in Range(a.cols) \ {"spd_limit"} : b.rows[i][c] = a.rows[i][c]
                /\ a.rows[i]["spd_limit"] # Null
                      => b.rows[i]["spd_limit"] = a.rows[i]["spd_limit"]
                /\ (/\ a.rows[i]["spd_limit"] = Null
                    /\ a.rows[i]["tipo_via_ctb"] \in {"1", "2", "3", "4"})
                      => b.rows[i]["spd_limit"] = Expected(a.rows[i]["tipo_via_ctb"])

\* C3's case: one table with a null speed limit filled from code "3" and a
\* posted speed limit left as it was.
C3_Witness ==
    /\ pc = "done"
    /\ Len(nds_sample) = 2
    /\ \E i, j \in DOMAIN nds_sample[1].rows :
         /\ nds_sample[1].rows[i]["spd_limit"] = Null
         /\ nds_sample[1].rows[i]["tipo_via_ctb"] = "3"
         /\ nds_sample[2].rows[i]["spd_limit"] = "40"
         /\ nds_sample[1].rows[j]["spd_limit"] = "50"
         /\ nds_sample[1].rows[j]["tipo_via_ctb"] = "1"
         /\ nds_sample[2].rows[j]["spd_limit"] = "50"

\* C4 (as claimed): join_bairros_data returns exactly as many rows as it was
\* given points, whatever the polygons.
C4_BairrosJoinTotal ==
    Returned("join_bairros_data") => NRows(AfterBairros) = NRows(nds_spatial)

\* C5 (as claimed): the two street joins leave the number of rows as it was
\* before them.
C5_OneRowPerFix ==
    Returned("join_vias_data_osm") => NRows(AfterOsm) = NRows(AfterBairros)

\* Position of a geometry of frame df, in metres.
Metres(df, g) == ConvertX(g.x, df.crs, 31982)

\* The rows of `after` are those of `before` joined to the streets of `layer`
\* within the radius: every point is kept; a point whose nearest street is at
\* most 19 away carries the attributes of a nearest street; a point with no
\* street nearer than 21 carries nulls; and no point carries the attributes of
\* a street farther than 20 away.
RadiusBounded(before, after, layer, attrs) ==
    /\ ~IsError(after)
    /\ Range(after.index) = Range(before.index)
    /\ \A k \in DOMAIN after.rows :
         LET r == after.rows[k]
             d(j) == Abs(Metres(after, r["geometry"])
                         - Metres(layer, layer.rows[j]["geometry"]))
             D == {d(j) : j \in DOMAIN layer.rows}
             gets(j) == \A c \in attrs : r[c] = layer.rows[j][c]
             nulls == \A c \in attrs : r[c] = Null
         IN /\ (D # {} /\ Min(D) <= 19)
                 => \E j \in DOMAIN layer.rows : d(j) = Min(D) /\ gets(j)
            /\ (D = {} \/ Min(D) >= 21) => nulls
            /\ nulls \/ \E j \in DOMAIN layer.rows : d(j) <= 20 /\ gets(j)

\* C6: each nearest-street join is bounded by the radius of 20, measured in
\* metres (EPSG 31982): distance 19 matches, distance 21 gives nulls.
C6_RadiusBounded ==
    /\ Returned("join_vias_data") =>
          RadiusBounded(AfterBairros, AfterVias, vias,
                        {"nome_via", "tipo_via_cwb", "tipo_via_ctb"})
    /\ Returned("join_vias_data_osm") =>
          RadiusBounded(AfterVias, AfterOsm, osm_vias, {"spd_limit"})

\* C6's case: with a street at 19 m, the fix at 0 m (distance 19) carries the
\* street's name and the fix at 40 m (distance 21) carries a null.
C6_Witness ==
    /\ Returned("join_vias_data")
    /\ \E j \in DOMAIN vias.rows : vias.rows[j]["geometry"].x = 19
    /\ \E k1, k2 \in DOMAIN AfterVias.rows :
         /\ AfterVias.rows[k1]["geometry"].x = 0
         /\ AfterVias.rows[k1]["nome_via"] = "RUA A"
         /\ AfterVias.rows[k2]["geometry"].x = 4
         /\ AfterVias.rows[k2]["nome_via"] = Null

StreetAttrs == {"nome_via", "tipo_via_cwb", "tipo_via_ctb", "spd_limit"}

\* Row r3 carries every non-null street attribute of row r2 unchanged.
Keeps(r2, r3) ==
    \A c \in StreetAttrs \cap DOMAIN r2 :
       r2[c] # Null => (c \in DOMAIN r3 /\ r3[c] = r2[c])

\* C7: every street attribute that is non-null on a row after the municipal
\* join has the same value on that row after the OSM join.
C7_SecondJoinKeeps ==
    Returned("join_vias_data_osm") =>
        /\ \A i \in DOMAIN AfterVias.rows : \E k \in DOMAIN AfterOsm.rows :
              /\ AfterOsm.index[k] = AfterVias.index[i]
              /\ Keeps(AfterVias.rows[i], AfterOsm.rows[k])
        /\ \A k \in DOMAIN AfterOsm.rows : \E i \in DOMAIN AfterVias.rows :
              /\ AfterOsm.index[k] = AfterVias.index[i]
              /\ Keeps(AfterVias.rows[i], AfterOsm.rows[k])

\* C7's case: a row that the municipal join named and the OSM join left
\* without a speed limit, beside a row that got both.
C7_Witness ==
    /\ Returned("join_vias_data_osm")
    /\ \E k1, k2 \in DOMAIN AfterOsm.rows :
         /\ AfterOsm.rows[k1]["nome_via"] = "RUA A"
         /\ AfterOsm.rows[k1]["spd_limit"] = "50"
         /\ AfterOsm.rows[k2]["nome_via"] = "RUA C"
         /\ AfterOsm.rows[k2]["spd_limit"] = Null

\* The state of the artifact when call k ended.
DiskAfter(k) == IF k < Len(osm_calls) THEN osm_calls[k + 1].disk ELSE disk

CallOk(k) == ~IsError(osm_calls[k].result)

\* What a call returns when it reads the artifact d.
ReadBack(d) ==
    RenameCols(Select(d.edges, <<"maxspeed", "geometry">>),
               [c \in {"maxspeed"} |-> "spd_limit"])

\* What C8 says of each call: it goes to the network exactly when the artifact
\* is absent as it starts; a successful call wrote exactly in that case, leaves
\* the artifact in place and returns what the artifact holds; an artifact that
\* exists is left as it is.
CacheCalls ==
    \A k \in DOMAIN osm_calls :
       LET c == osm_calls[k]
       IN /\ c.extracted <=> ~c.disk.exists
          /\ c.wrote => c.extracted
          /\ CallOk(k) => (c.wrote <=> ~c.disk.exists)
          /\ CallOk(k) => (DiskAfter(k).exists /\ c.result = ReadBack(DiskAfter(k)))
          /\ c.disk.exists => DiskAfter(k) = c.disk

\* C8 (as claimed): import_osm is an idempotent existence-checked cache: a call
\* extracts and writes exactly when the artifact is absent as it starts; after
\* a successful call the artifact exists; later calls read it back and never
\* rewrite it; so at most one extraction happens over the whole sequence.
C8_AtMostOneExtraction ==
    /\ CacheCalls
    /\ Cardinality({k \in DOMAIN osm_calls : osm_calls[k].extracted}) <= 1

\* C8 (amended): import_osm is an existence-checked cache as above, and at
\* most one call writes the artifact and at most one successful call extracts;
\* an extraction is repeated only right after a call that started without the
\* artifact and failed.
C8_AtMostOneWrite ==
    /\ CacheCalls
    /\ Cardinality({k \in DOMAIN osm_calls : osm_calls[k].wrote}) <= 1
    /\ Cardinality({k \in DOMAIN osm_calls : osm_calls[k].extracted /\ CallOk(k)}) <= 1
    /\ \A k \in DOMAIN osm_calls :
          (osm_calls[k].extracted /\ k > 1)
             => (~CallOk(k - 1) /\ ~osm_calls[k - 1].disk.exists)

\* C8's case: a call extracts and writes, and a later call for another place
\* goes to no network and returns the cached data.
C8_Witness ==
    /\ Len(osm_calls) >= 2
    /\ osm_calls[1].extracted /\ osm_calls[1].wrote /\ CallOk(1)
    /\ osm_calls[2].place # osm_calls[1].place
    /\ CallOk(2) /\ ~osm_calls[2].extracted /\ ~osm_calls[2].wrote
    /\ osm_calls[2].result = osm_calls[1].result

LowercaseNames ==
    {"driver", "long", "lat", "date", "trip", "id", "time", "time_acum",
     "spd_kmh", "valid_time", "timestamp", "acel_ms2"}

\* C9 (as claimed): the table clean_cols returns (the one main holds as
\* create_datetime is next) has 12 columns, none outside the allow-list, each
\* under a lowercase canonical name; and clean_cols returns only when the raw
\* table has every allow-listed column.
C9_LowercaseAllowList ==
    /\ pc = "create_datetime" =>
          /\ Range(COLS) \subseteq Range(nds_data.cols)
          /\ Len(nds_data_cleaned.cols) = Len(COLS)
          /\ Range(nds_data_cleaned.cols) \subseteq LowercaseNames
    /\ (Returned("read_csv") /\ ~(Range(COLS) \subseteq Range(nds_data.cols)))
          => ~Returned("clean_cols")

IsPrefix(s, t) == Len(s) <= Len(t) /\ \A k \in DOMAIN s : s[k] = t[k]

====
